---------------------------- MODULE Spec2Model ----------------------------
(***************************************************************************)
(* Incremental Newton-Raphson driver of skmech (solvers/incremental.py)    *)
(* together with the parts of Model (model.py) and Material (material.py)  *)
(* it reads.                                                               *)
(*                                                                         *)
(* Arithmetic is exact integer arithmetic.  The collaborators that are not *)
(* part of the source tree (element constructor and kinematics, the        *)
(* constitutive update, the consistent tangent, neumann, dirichlet, the    *)
(* reporting writer) are modelled from the specification in their scalar   *)
(* (one strain component) form: every integration point of an element      *)
(* strains the x dof of one node of the element, so the tangent matrix is  *)
(* diagonal, the linear solve is a division per dof, and a y dof carries   *)
(* no stiffness of its own: it has to be restrained.                       *)
(***************************************************************************)
EXTENDS Integers, Sequences, FiniteSets, TLC

(***************************************************************************)
(* Bounds of the model.                                                    *)
(***************************************************************************)
MaxIncr == 2       \* longest load program
MaxIter == 3       \* largest max_num_iter
MaxLambda == 1     \* largest load factor (in units of the reference load)
MaxQuadPoints == 3 \* largest number of quadrature points per direction
MaxTol == 1        \* largest tolerance on the residual norm
MaxNodes == 3      \* largest number of mesh nodes of a model under construction

(***************************************************************************)
(* Program constants.                                                      *)
(***************************************************************************)
DefaultTol == 0          \* solver(tol=1e-6): exact arithmetic, so 0
DefaultQuadPoints == 2   \* Model.__init__(num_quad_points=2)
ReportedGaussPoints == 4 \* range(4) of the element average in solver

(***************************************************************************)
(* State of one run of solver(model, load_increment, max_num_iter, tol).   *)
(***************************************************************************)
VARIABLES
    model,            \* the attributes Model.__init__ computes
    load_increment,   \* the load program (sequence of load factors)
    max_num_iter,     \* Newton iterations allowed per increment
    tol,              \* tolerance on the residual norm
    material,         \* model.material
    num_quad_points,  \* model.num_quad_points (the same for every element)
    f_ext_bar,        \* external_load_vector(model): the reference load
    imposed_displ,    \* model.imposed_displ (None or a dict)
    displacement_bc,  \* model.displacement_bc
    pc,               \* position in solver
    incr_id,          \* index of the current increment, from 0
    lmbda,            \* its load factor
    k,                \* index of the current Newton iteration, from 0
    f_ext, du, u,     \* load vector, displacement increment, displacement
    displ,            \* the history, one column per load factor
    eps_e_n,          \* committed elastic strain per (eid, gp)
    eps_bar_p_n,      \* committed accumulated plastic strain per (eid, gp)
    dgamma_n,         \* committed plastic multiplier per (eid, gp)
    f_int, K_T, r,    \* of the current iteration
    int_var,          \* candidate state returned by the last assembly
    err,              \* squared norm of r of the current iteration
    exc,              \* the exception that ended the run
    trial,            \* trial state formed by the last assembly
    tangent_dgamma,   \* multipliers handed to the tangent by the last assembly
    num_assemble,     \* calls of local_solver so far
    col_writes,       \* increments whose history column was written, in order
    fields,           \* fields handed to write_field, in order
    snapshot          \* the Gauss-point state as of the last commit

inputs == <<model, load_increment, max_num_iter, tol, material,
            num_quad_points, f_ext_bar, imposed_displ>>

committed == <<eps_e_n, eps_bar_p_n, dgamma_n>>

iteration == <<f_int, K_T, r, int_var, err, trial, tangent_dgamma>>

\* what the construction of the material and of the model leaves alone
solver_state == <<load_increment, max_num_iter, tol, num_quad_points,
                  f_ext_bar, imposed_displ, displacement_bc, incr_id, lmbda,
                  k, f_ext, du, u, displ, eps_e_n, eps_bar_p_n, dgamma_n,
                  f_int, K_T, r, int_var, err, trial, tangent_dgamma,
                  num_assemble, col_writes, fields, snapshot>>

vars == <<model, load_increment, max_num_iter, tol, material, num_quad_points,
          f_ext_bar, imposed_displ, displacement_bc, pc, incr_id, lmbda, k,
          f_ext, du, u, displ, eps_e_n, eps_bar_p_n, dgamma_n, f_int, K_T, r,
          int_var, err, exc, trial, tangent_dgamma, num_assemble, col_writes,
          fields, snapshot>>

(***************************************************************************)
(* The mesh: three nodes in a row, two surface elements (etype 3) sharing  *)
(* node 2, two physical points (etype 15) and a physical line (etype 1).   *)
(* Entries are gmsh's: <<etype, number of tags, physical tag, geometric    *)
(* tag, nodes...>>.                                                        *)
(***************************************************************************)
MeshNodes == {1, 2, 3}

MeshElements ==
    [eid \in {1, 2, 101, 102, 103} |->
        CASE eid = 1   -> <<3, 2, 20, 1, 1, 2>>
          [] eid = 2   -> <<3, 2, 20, 1, 2, 3>>
          [] eid = 101 -> <<15, 2, 10, 1, 1>>
          [] eid = 102 -> <<1, 2, 11, 1, 2, 3>>
          [] eid = 103 -> <<15, 2, 12, 1, 3>>]

etypes == {3}

\* Model._get_elements: only the declared element types
ModelElements ==
    [eid \in {e \in DOMAIN MeshElements : MeshElements[e][1] \in etypes}
        |-> MeshElements[eid]]

\* iteration order of model.elements (insertion order of the dict)
ElementOrder == <<1, 2>>

\* Model._get_number_dof; 0 stands for Exception('Element not implemented!')
get_number_dof(etypes_) ==
    IF 3 \in etypes_ THEN 2
    ELSE IF 1 \in etypes_ THEN 6
    ELSE IF 5 \in etypes_ THEN 3
    ELSE 0

num_dof_node == get_number_dof(etypes)

num_nodes == Cardinality(MeshNodes)

num_dof == num_nodes * num_dof_node

Dofs == 1..num_dof

\* Model._generate_dof:
\* dof[nid] = [nid * num_dof_node - 1 + i for i in range(num_dof_node)]
generate_dof(nodes, ndn) ==
    [nid \in nodes |-> [i \in 1..ndn |-> nid * ndn - 1 + (i - 1)]]

nodes_dof == generate_dof(MeshNodes, num_dof_node)

\* Model.get_physical_element: the mesh elements carrying a physical tag
get_physical_element(physical_element) ==
    {eid \in DOMAIN MeshElements : MeshElements[eid][3] = physical_element}


(***************************************************************************)
(* Small helpers.                                                          *)
(***************************************************************************)
Abs(x) == IF x < 0 THEN -x ELSE x

Sign(x) == IF x < 0 THEN -1 ELSE 1

RECURSIVE SumOver(_, _)
SumOver(S, f) ==
    IF S = {} THEN 0
    ELSE LET x == CHOOSE y \in S : TRUE
         IN  f[x] + SumOver(S \ {x}, f)

ZeroVec == [d \in Dofs |-> 0]

ZeroMat == [i \in Dofs |-> [j \in Dofs |-> 0]]

\* np.linalg.norm(r), kept squared: err <= tol is compared on the squares
NormSq(r_) == SumOver(Dofs, [d \in Dofs |-> r_[d] * r_[d]])

(***************************************************************************)
(* Material (material.py).  E and nu are required, H and sig_y0 are        *)
(* attributes only when given.  nu plays no part in the scalar law.        *)
(***************************************************************************)
MaterialFull ==
    [E |-> [s \in {20} |-> 2], nu |-> [s \in {20} |-> 0],
     H |-> [s \in {20} |-> 2], sig_y0 |-> [s \in {20} |-> 4]]

MaterialNoHardening ==
    [E |-> [s \in {20} |-> 2], nu |-> [s \in {20} |-> 0]]

\* keyword arguments Material(**mat_dic) may be given: everything; no H; no
\* sig_y0; H for another surface than the elements'; no E; no nu
MaterialKeywords ==
    {MaterialFull,
     MaterialNoHardening,
     [E |-> [s \in {20} |-> 2], nu |-> [s \in {20} |-> 0],
      H |-> [s \in {20} |-> 2]],
     [E |-> [s \in {20} |-> 2], nu |-> [s \in {20} |-> 0],
      H |-> [s \in {21} |-> 2], sig_y0 |-> [s \in {20} |-> 4]],
     [nu |-> [s \in {20} |-> 0],
      H |-> [s \in {20} |-> 2], sig_y0 |-> [s \in {20} |-> 4]],
     [E |-> [s \in {20} |-> 2],
      H |-> [s \in {20} |-> 2], sig_y0 |-> [s \in {20} |-> 4]]}

\* (mutant) the object is built from whatever keywords are given
MaterialNewLenient(mat_dic) == [error |-> "", object |-> mat_dic]

\* Material.__init__: E and nu are required, H and sig_y0 are taken when given
MaterialNew(mat_dic) ==
    IF "E" \notin DOMAIN mat_dic THEN [error |-> "Missing E"]
    ELSE IF "nu" \notin DOMAIN mat_dic THEN [error |-> "Missing nu"]
    ELSE [error |-> "",
          object |-> [a \in DOMAIN mat_dic \cap {"E", "nu", "H", "sig_y0"} |->
                         mat_dic[a]]]

(***************************************************************************)
(* Element object built by constructor(eid, etype, model).                 *)
(***************************************************************************)
\* element.dof: the dofs of the element's nodes, node after node
ElementDof(eid) ==
    LET e == ModelElements[eid]
    IN  nodes_dof[e[Len(e) - 1]] \o nodes_dof[e[Len(e)]]

\* element.physical_surf
PhysicalSurf(eid) == ModelElements[eid][3]

\* len(element.gauss.weights): tensor-product rule, nqp points per direction
NumGauss(nqp) == nqp * nqp

\* B at an integration point: the point strains the x dof of one of the two
\* nodes of the element (local dofs are <<x1, y1, x2, y2>>)
LocalDofOf(eid, gp) == 1 + num_dof_node * (gp % 2)

(***************************************************************************)
(* Local constitutive update (return mapping), scalar form:                *)
(*   sig_trial = E eps_trial, f = |sig_trial| - (sig_y0 + H epb);          *)
(*   f <= 0: elastic; else dgamma = f / (E + H), radial return.            *)
(***************************************************************************)
state_update_mises(E, H, sig_y0, eps_e_trial, eps_bar_p_trial) ==
    LET sig_trial == E * eps_e_trial
        q_trial   == Abs(sig_trial)
        f_trial   == q_trial - (sig_y0 + H * eps_bar_p_trial)
        dgamma    == f_trial \div (E + H)
        q         == q_trial - E * dgamma
    IN  IF f_trial <= 0
        THEN [sig |-> sig_trial, eps_e |-> eps_e_trial,
              eps_bar_p |-> eps_bar_p_trial, dgamma |-> 0, ep_flag |-> "elastic"]
        ELSE [sig |-> Sign(sig_trial) * q,
              eps_e |-> Sign(sig_trial) * (q \div E),
              eps_bar_p |-> eps_bar_p_trial + dgamma,
              dgamma |-> dgamma, ep_flag |-> "plastic"]

\* Consistent tangent: elastic modulus, or the elastoplastic modulus
consistent_tangent_mises(dgamma, sig, E, H, ep_flag) ==
    IF ep_flag = "elastic" THEN E ELSE (E * H) \div (E + H)

(***************************************************************************)
(* local_solver: one assembly of the internal force vector and the tangent *)
(* matrix from the displacement increment du and the committed maps.       *)
(***************************************************************************)
\* the (eid, gp) keys of the maps built at the start of solver
InitialKeys(nqp) ==
    {<<eid, gp>> : eid \in DOMAIN ModelElements, gp \in 0..(nqp * 2 - 1)}

\* the (eid, gp) pairs the quadrature loop of one element visits
GaussPoints(nqp) == 0..(NumGauss(nqp) - 1)

GaussKeys(nqp) ==
    {<<eid, gp>> : eid \in DOMAIN ModelElements, gp \in GaussPoints(nqp)}

\* H and sig_y0 of the element's surface can be read (the try block)
MaterialOK(material_, eid) ==
    /\ "H" \in DOMAIN material_
    /\ "sig_y0" \in DOMAIN material_
    /\ PhysicalSurf(eid) \in DOMAIN material_.H
    /\ PhysicalSurf(eid) \in DOMAIN material_.sig_y0

\* the first exception the element loop raises, "" when it raises none
RECURSIVE FirstError(_, _, _, _)
FirstError(order, material_, nqp, eps_e_n_) ==
    IF order = <<>> THEN ""
    ELSE LET eid == Head(order)
         IN  IF ~MaterialOK(material_, eid) THEN "MissingMaterial"
             ELSE IF \E gp \in GaussPoints(nqp) : <<eid, gp>> \notin DOMAIN eps_e_n_
                  THEN "KeyError"
             ELSE FirstError(Tail(order), material_, nqp, eps_e_n_)

\* deps = B @ du_ele at one integration point
StrainIncrement(du_, eid, gp) == du_[ElementDof(eid)[LocalDofOf(eid, gp)]]

\* int_var['sig_ele'][eid] += sig / len(element.gauss.weights), point after
\* point; a stress is kept as a numerator over the number of points, which
\* makes sig / n exact
RECURSIVE AccumulateStress(_, _, _)
AccumulateStress(acc, stresses, n) ==
    IF stresses = << >> THEN acc
    ELSE AccumulateStress([num |-> acc.num + Head(stresses), den |-> n],
                          Tail(stresses), n)

\* (mutant) the sum goes on from the element stress of the last candidate
ElementStressCarried(eid, stresses, n) ==
    AccumulateStress(IF eid \in DOMAIN int_var.sig_ele
                     THEN int_var.sig_ele[eid] ELSE [num |-> 0, den |-> n],
                     stresses, n)

\* int_var['sig_ele'][eid] = np.zeros(3), then the sum over the points
ElementStress(eid, stresses, n) ==
    AccumulateStress([num |-> 0, den |-> n], stresses, n)

\* (mutant) the trial strain formed from the candidate of the last assembly
TrialStrainFromCandidate(du_, eps_e_n_, eid, gp) ==
    (IF <<eid, gp>> \in DOMAIN int_var.eps_e
     THEN int_var.eps_e[<<eid, gp>>] ELSE eps_e_n_[<<eid, gp>>])
        + StrainIncrement(du_, eid, gp)

\* elastic trial strain: previous stored value of this point plus deps
TrialStrain(du_, eps_e_n_, eid, gp) ==
    eps_e_n_[<<eid, gp>>] + StrainIncrement(du_, eid, gp)

\* state update of one integration point
GaussUpdate(material_, du_, eps_e_n_, eps_bar_p_n_, eid, gp) ==
    state_update_mises(material_.E[PhysicalSurf(eid)],
                       material_.H[PhysicalSurf(eid)],
                       material_.sig_y0[PhysicalSurf(eid)],
                       TrialStrain(du_, eps_e_n_, eid, gp),
                       eps_bar_p_n_[<<eid, gp>>])

\* (mutant) the multiplier the state update of this assembly has just found
TangentMultiplierOfUpdate(dgamma_n_, upd, eid, gp) == upd.dgamma

\* the plastic multiplier handed to the consistent tangent
TangentMultiplier(dgamma_n_, upd, eid, gp) == dgamma_n_[<<eid, gp>>]

\* (mutant) the element vector overwrites what the global vector holds at
\* the element's dofs
ScatterVecOverwriting(f_int_, eid, f_int_e) ==
    LET dof == ElementDof(eid)
    IN  [d \in Dofs |->
            IF \E i \in 1..Len(dof) : dof[i] = d
            THEN SumOver({i \in 1..Len(dof) : dof[i] = d}, f_int_e)
            ELSE f_int_[d]]

\* f_int[element.id_v] += f_int_e
ScatterVec(f_int_, eid, f_int_e) ==
    LET dof == ElementDof(eid)
    IN  [d \in Dofs |->
            f_int_[d] + SumOver({i \in 1..Len(dof) : dof[i] = d}, f_int_e)]

\* K_T[element.id_m] += k_T_e
ScatterMat(K_T_, eid, k_T_e) ==
    LET dof == ElementDof(eid)
    IN  [a \in Dofs |-> [b \in Dofs |->
            K_T_[a][b] + SumOver({i \in 1..Len(dof) : dof[i] = a /\ a = b}, k_T_e)]]

RECURSIVE AssembleVec(_, _, _)
AssembleVec(order, f_e, f_int_) ==
    IF order = <<>> THEN f_int_
    ELSE AssembleVec(Tail(order), f_e,
                     ScatterVec(f_int_, Head(order), f_e[Head(order)]))

RECURSIVE AssembleMat(_, _, _)
AssembleMat(order, k_e, K_T_) ==
    IF order = <<>> THEN K_T_
    ELSE AssembleMat(Tail(order), k_e,
                     ScatterMat(K_T_, Head(order), k_e[Head(order)]))

\* (mutant) the call stores its results into the maps it was given
MapsWrittenInPlace(eps_e_n_, eps_bar_p_n_, dgamma_n_, int_var_) ==
    [eps_e |-> int_var_.eps_e, eps_bar_p |-> int_var_.eps_bar_p,
     dgamma |-> int_var_.dgamma]

\* the committed maps as the call leaves them: it only reads them
MapsAfterCall(eps_e_n_, eps_bar_p_n_, dgamma_n_, int_var_) ==
    [eps_e |-> eps_e_n_, eps_bar_p |-> eps_bar_p_n_, dgamma |-> dgamma_n_]

local_solver(material_, nqp, du_, eps_e_n_, eps_bar_p_n_, dgamma_n_) ==
    LET error == FirstError(ElementOrder, material_, nqp, eps_e_n_)
        keys  == GaussKeys(nqp)
        upd   == [key \in keys |->
                    GaussUpdate(material_, du_, eps_e_n_, eps_bar_p_n_, key[1], key[2])]
        D     == [key \in keys |->
                    consistent_tangent_mises(
                        TangentMultiplier(dgamma_n_, upd[key], key[1], key[2]),
                        upd[key].sig,
                        material_.E[PhysicalSurf(key[1])],
                        material_.H[PhysicalSurf(key[1])],
                        upd[key].ep_flag)]
        \* element internal force and diagonal of the element tangent
        f_e   == [eid \in DOMAIN ModelElements |->
                    [i \in 1..Len(ElementDof(eid)) |->
                        SumOver({gp \in GaussPoints(nqp) : LocalDofOf(eid, gp) = i},
                                [gp \in GaussPoints(nqp) |-> upd[<<eid, gp>>].sig])]]
        k_e   == [eid \in DOMAIN ModelElements |->
                    [i \in 1..Len(ElementDof(eid)) |->
                        SumOver({gp \in GaussPoints(nqp) : LocalDofOf(eid, gp) = i},
                                [gp \in GaussPoints(nqp) |-> D[<<eid, gp>>]])]]
        cand  == [eps_e     |-> [key \in keys |-> upd[key].eps_e],
                  eps_bar_p |-> [key \in keys |-> upd[key].eps_bar_p],
                  dgamma    |-> [key \in keys |-> upd[key].dgamma],
                  sig_ele   |-> [eid \in DOMAIN ModelElements |->
                                     ElementStress(eid,
                                         [i \in 1..NumGauss(nqp) |->
                                             upd[<<eid, i - 1>>].sig],
                                         NumGauss(nqp))]]
    IN  IF error # ""
        THEN [error |-> error]
        ELSE [error   |-> "",
              f_int   |-> AssembleVec(ElementOrder, f_e, ZeroVec),
              K_T     |-> AssembleMat(ElementOrder, k_e, ZeroMat),
              int_var |-> cand,
              trial   |-> [eps_e     |-> [key \in keys |->
                                            TrialStrain(du_, eps_e_n_, key[1], key[2])],
                           eps_bar_p |-> [key \in keys |-> eps_bar_p_n_[key]]],
              tangent_dgamma |-> [key \in keys |->
                    TangentMultiplier(dgamma_n_, upd[key], key[1], key[2])],
              maps    |-> MapsAfterCall(eps_e_n_, eps_bar_p_n_, dgamma_n_, cand)]

(***************************************************************************)
(* Boundary conditions.  A constraint value is None or Some(v); a          *)
(* constraint is a pair of them, one per direction, keyed by the physical  *)
(* tag of a point or a line.                                               *)
(***************************************************************************)
None == << >>

Some(v) == <<v>>

\* the nodes of a physical location (point: last entry, line: last two)
LocationNodes(d_loc) ==
    UNION {LET e == MeshElements[eid]
           IN  IF e[1] = 15 THEN {e[Len(e)]}
               ELSE IF e[1] = 1 THEN {e[Len(e) - 1], e[Len(e)]}
               ELSE {}
           : eid \in get_physical_element(d_loc)}

\* the (location, direction) pairs of bc that restrain dof d
RestrainingAt(bc, d) ==
    {lj \in (DOMAIN bc) \X (1..2) :
        /\ bc[lj[1]][lj[2]] # None
        /\ \E n \in LocationNodes(lj[1]) : nodes_dof[n][lj[2]] = d}

Restrained(bc, d) == RestrainingAt(bc, d) # {}

\* the value prescribed at a restrained dof: the loop over the constraints
\* runs in the dict's order (here: increasing tag), the last one stands
PrescribedAt(bc, d) ==
    LET lj == CHOOSE x \in RestrainingAt(bc, d) :
                  \A y \in RestrainingAt(bc, d) : y[1] <= x[1]
    IN  bc[lj[1]][lj[2]][1]

\* dirichlet(K_T, r, model): modifies matrix and vector.  The row of a
\* restrained dof becomes the unit row and its right-hand side the
\* prescribed value, so that the solved correction there is that value.
dirichlet(K_T_, r_, bc) ==
    [K_T |-> [a \in Dofs |->
                IF Restrained(bc, a)
                THEN [b \in Dofs |-> IF a = b THEN 1 ELSE 0]
                ELSE K_T_[a]],
     r   |-> [a \in Dofs |->
                IF Restrained(bc, a)
                THEN -PrescribedAt(bc, a)
                ELSE r_[a]]]

\* (mutant) the scaling applied to what the last iteration left in
\* model.displacement_bc, so that it compounds
ScaleImposedCompounding(imposed, lmbda_) ==
    [line \in DOMAIN imposed |->
        LET prev == IF line \in DOMAIN displacement_bc
                    THEN displacement_bc[line] ELSE imposed[line]
        IN  <<IF prev[1] # None THEN Some(prev[1][1] * lmbda_) ELSE None,
              IF prev[2] # None THEN Some(prev[2][1] * lmbda_) ELSE None>>]

\* the copy of model.imposed_displ scaled by the load factor
ScaleImposed(imposed, lmbda_) ==
    [line \in DOMAIN imposed |->
        <<IF imposed[line][1] # None
            THEN Some(imposed[line][1][1] * lmbda_) ELSE None,
          IF imposed[line][2] # None
            THEN Some(imposed[line][2][1] * lmbda_) ELSE None>>]

\* dict.update: the keys of new replace or extend those of old
DictUpdate(old, new) == new @@ old

(***************************************************************************)
(* Model.__init__ (model.py): the attributes computed from the mesh, the   *)
(* declared element types and the displacement constraints.                *)
(***************************************************************************)
\* the mesh cut down to its first n nodes (n = 3: the whole mesh)
MeshOf(n) ==
    [eid \in {e \in DOMAIN MeshElements :
                \A p \in 5..Len(MeshElements[e]) : MeshElements[e][p] <= n}
        |-> MeshElements[eid]]

\* the keys of a dict in the order a loop visits them (here: increasing)
RECURSIVE KeysInOrder(_)
KeysInOrder(S) ==
    IF S = {} THEN << >>
    ELSE LET m == CHOOSE x \in S : \A y \in S : x <= y
         IN  <<m>> \o KeysInOrder(S \ {m})

\* lr = np.zeros(num_dof); lr[index] = 1   (index counts from 0)
UnitRow(num_dof_, index) ==
    [p \in 0..(num_dof_ - 1) |-> IF p = index THEN 1 ELSE 0]

\* (mutant) a direction is restrained when its value is truthy
IsRestrainingTruthy(value) == value # None /\ value[1] # 0

\* if d_value[j] is not None
IsRestraining(value) == value # None

\* the rows one physical element adds to Lr for the constraint d_value
RowsOfElement(e, d_value, nodes_dof_, num_dof_) ==
    IF e[1] = 15
    THEN LET dof == nodes_dof_[e[Len(e)]]
         IN  (IF IsRestraining(d_value[1])
              THEN <<UnitRow(num_dof_, dof[1] - 1)>> ELSE << >>)
             \o (IF IsRestraining(d_value[2])
                 THEN <<UnitRow(num_dof_, dof[2] - 1)>> ELSE << >>)
    ELSE IF e[1] = 1
    THEN LET dof_n1 == nodes_dof_[e[Len(e) - 1]]
             dof_n2 == nodes_dof_[e[Len(e)]]
         IN  (IF IsRestraining(d_value[1])
              THEN <<UnitRow(num_dof_, dof_n1[1] - 1),
                     UnitRow(num_dof_, dof_n2[1] - 1)>> ELSE << >>)
             \o (IF IsRestraining(d_value[2])
                 THEN <<UnitRow(num_dof_, dof_n1[2] - 1),
                        UnitRow(num_dof_, dof_n2[2] - 1)>> ELSE << >>)
    ELSE << >>

\* the rows the elements of one physical location add, element after element
RECURSIVE RowsOfLocation(_, _, _, _, _)
RowsOfLocation(eids, mesh, d_value, nodes_dof_, num_dof_) ==
    IF eids = << >> THEN << >>
    ELSE RowsOfElement(mesh[Head(eids)], d_value, nodes_dof_, num_dof_)
         \o RowsOfLocation(Tail(eids), mesh, d_value, nodes_dof_, num_dof_)

\* Model.get_connectivity_matrices: Lr, constraint after constraint
RECURSIVE get_connectivity_matrices(_, _, _, _, _)
get_connectivity_matrices(locs, mesh, bc, nodes_dof_, num_dof_) ==
    IF locs = << >> THEN << >>
    ELSE RowsOfLocation(
             KeysInOrder({eid \in DOMAIN mesh : mesh[eid][3] = Head(locs)}),
             mesh, bc[Head(locs)], nodes_dof_, num_dof_)
         \o get_connectivity_matrices(Tail(locs), mesh, bc, nodes_dof_, num_dof_)

\* the model object before __init__ has computed anything
NewModel(etypes_, n) ==
    [etypes |-> etypes_, nodes |-> 1..n, mesh |-> MeshOf(n),
     num_nodes |-> 0, num_dof_node |-> 0, num_dof |-> 0,
     nodes_dof |-> << >>, Lr |-> << >>]

\* lines 42-50: num_nodes, num_dof_node, num_dof
WithNumberDof(m) ==
    [m EXCEPT !.num_nodes = Cardinality(m.nodes),
              !.num_dof_node = get_number_dof(m.etypes),
              !.num_dof = Cardinality(m.nodes) * get_number_dof(m.etypes)]

\* line 55: nodes_dof
WithNodesDof(m) ==
    [m EXCEPT !.nodes_dof = generate_dof(m.nodes, m.num_dof_node)]

\* line 58: Lf, Lr
WithConnectivity(m, bc) ==
    [m EXCEPT !.Lr = get_connectivity_matrices(
                         KeysInOrder(DOMAIN bc), m.mesh, bc,
                         m.nodes_dof, m.num_dof)]

\* the model a run of solver is given
BuiltModel(etypes_, n, bc) ==
    WithConnectivity(WithNodesDof(WithNumberDof(NewModel(etypes_, n))), bc)

(***************************************************************************)
(* np.linalg.solve on the (diagonal) modified system.                      *)
(***************************************************************************)
Singular(K) == \E d \in Dofs : K[d][d] = 0

Quot(a, b) == Sign(a) * Sign(b) * (Abs(a) \div Abs(b))

Solve(K, b) == [d \in Dofs |-> Quot(b[d], K[d][d])]

(***************************************************************************)
(* Inputs of a run.                                                        *)
(***************************************************************************)
LoadPrograms ==
    UNION {[1..n -> 0..MaxLambda] : n \in 1..MaxIncr}

\* neumann(model): no traction; a traction in x on node 3 that stays at the
\* yield limit for a load factor of 1; one on nodes 2 and 3 that takes
\* element 2 past yield
Tractions ==
    {ZeroVec,
     [d \in Dofs |-> IF d = 5 THEN 8 ELSE 0],
     [d \in Dofs |-> IF d \in {3, 5} THEN 16 ELSE 0]}

\* supports: none; node 1 fixed and line 11 on rollers; every node fixed
SupportsNone == << >>

SupportsRollers ==
    [loc \in {10, 11} |->
        IF loc = 10 THEN <<Some(0), Some(0)>> ELSE <<None, Some(0)>>]

SupportsAll == [loc \in {10, 11} |-> <<Some(0), Some(0)>>]

Supports == {SupportsNone, SupportsRollers, SupportsAll}

\* model.imposed_displ: None, or node 3 (point 12) driven in x
ImposedDispl ==
    {None, [loc \in {12} |-> <<Some(1), None>>]}

Materials == {MaterialFull, MaterialNoHardening}

NoCandidate ==
    [eps_e |-> << >>, eps_bar_p |-> << >>, dgamma |-> << >>, sig_ele |-> << >>]

NoException == [type |-> "", step |-> 0, iters |-> 0, err |-> 0]

\* the arguments of a run: the model and the options of solver
RunInputs(nqp, tolerances, materials) ==
    /\ load_increment \in LoadPrograms
    /\ max_num_iter \in 1..MaxIter
    /\ tol \in tolerances
    /\ material \in materials
    /\ num_quad_points \in nqp
    /\ f_ext_bar \in Tractions
    /\ imposed_displ \in ImposedDispl
    /\ displacement_bc \in Supports
    /\ model = BuiltModel(etypes, num_nodes, displacement_bc)

\* lines 38-73 of solver: the state before the first increment
SolverEntry ==
    /\ incr_id = 0
    /\ lmbda = 0
    /\ k = 0
    /\ f_ext = ZeroVec
    /\ du = ZeroVec
    /\ u = ZeroVec
    /\ displ = [i \in 1..Len(load_increment) |-> ZeroVec]
    /\ eps_e_n = [key \in InitialKeys(num_quad_points) |-> 0]
    /\ eps_bar_p_n = [key \in InitialKeys(num_quad_points) |-> 0]
    /\ dgamma_n = [key \in InitialKeys(num_quad_points) |-> 0]
    /\ f_int = ZeroVec
    /\ K_T = ZeroMat
    /\ r = ZeroVec
    /\ int_var = NoCandidate
    /\ err = 0
    /\ exc = NoException
    /\ trial = [eps_e |-> << >>, eps_bar_p |-> << >>]
    /\ tangent_dgamma = << >>
    /\ num_assemble = 0
    /\ col_writes = << >>
    /\ fields = << >>
    /\ snapshot = [eps_e     |-> [key \in InitialKeys(num_quad_points) |-> 0],
                   eps_bar_p |-> [key \in InitialKeys(num_quad_points) |-> 0],
                   dgamma    |-> [key \in InitialKeys(num_quad_points) |-> 0]]

InitWith(nqp) ==
    /\ RunInputs({nqp}, {DefaultTol}, Materials)
    /\ pc = "incr"
    /\ SolverEntry

Init == InitWith(DefaultQuadPoints)

(***************************************************************************)
(* Steps of solver.                                                        *)
(***************************************************************************)
Raise(type) ==
    /\ pc' = "raised"
    /\ exc' = [type |-> type, step |-> incr_id + 1, iters |-> k, err |-> err]

\* (mutant) the reference load, not scaled by the load factor
LoadVectorUnscaled(l) == f_ext_bar

\* f_ext = lmbda * f_ext_bar
LoadVector(l) == [d \in Dofs |-> l * f_ext_bar[d]]

\* (mutant) the increment of the previous load step is kept
StaleIncrement == du

\* du = np.zeros(num_dof) at the start of a load increment
InitialIncrement == ZeroVec

\* for incr_id, lmbda in enumerate(load_increment): f_ext, du = 0
BeginIncrement ==
    /\ pc = "incr"
    /\ incr_id < Len(load_increment)
    /\ lmbda' = load_increment[incr_id + 1]
    /\ f_ext' = LoadVector(load_increment[incr_id + 1])
    /\ du' = InitialIncrement
    /\ k' = 0
    /\ pc' = "assemble"
    /\ UNCHANGED <<inputs, displacement_bc, incr_id, u, displ, committed,
                   iteration, exc, num_assemble, col_writes, fields, snapshot>>

\* the loop over load increments is exhausted: return displ, load_increment
Return ==
    /\ pc = "incr"
    /\ incr_id = Len(load_increment)
    /\ pc' = "returned"
    /\ UNCHANGED <<inputs, displacement_bc, incr_id, lmbda, k, f_ext, du, u,
                   displ, committed, iteration, exc, num_assemble, col_writes,
                   fields, snapshot>>

\* f_int, K_T, int_var = local_solver(...); r = f_int - f_ext
Assemble ==
    /\ pc = "assemble"
    /\ \E res \in {local_solver(material, num_quad_points, du,
                                eps_e_n, eps_bar_p_n, dgamma_n)} :
           /\ num_assemble' = num_assemble + 1
           /\ IF res.error # ""
              THEN /\ Raise(res.error)
                   /\ UNCHANGED <<committed, iteration>>
              ELSE /\ f_int' = res.f_int
                   /\ K_T' = res.K_T
                   /\ int_var' = res.int_var
                   /\ trial' = res.trial
                   /\ tangent_dgamma' = res.tangent_dgamma
                   /\ eps_e_n' = res.maps.eps_e
                   /\ eps_bar_p_n' = res.maps.eps_bar_p
                   /\ dgamma_n' = res.maps.dgamma
                   /\ r' = [d \in Dofs |-> res.f_int[d] - f_ext[d]]
                   /\ pc' = "bc"
                   /\ UNCHANGED <<err, exc>>
    /\ UNCHANGED <<inputs, displacement_bc, incr_id, lmbda, k, f_ext, du, u,
                   displ, col_writes, fields, snapshot>>

\* scale the imposed displacements into model.displacement_bc, then
\* K_T_m, r_m = dirichlet(K_T, r, model)
ApplyBC ==
    /\ pc = "bc"
    /\ LET bc == IF imposed_displ # None
                 THEN DictUpdate(displacement_bc,
                                 ScaleImposed(imposed_displ, lmbda))
                 ELSE displacement_bc
           m  == dirichlet(K_T, r, bc)
       IN  /\ displacement_bc' = bc
           /\ K_T' = m.K_T
           /\ r' = m.r
    /\ pc' = "solve"
    /\ UNCHANGED <<inputs, incr_id, lmbda, k, f_ext, du, u, displ, committed,
                   f_int, int_var, err, trial, tangent_dgamma, exc,
                   num_assemble, col_writes, fields, snapshot>>

\* (mutant) the correction with the sign lost
CorrectionUnsigned(K, b) == Solve(K, b)

\* nr_correction = - np.linalg.solve(K_T_m, r_m)
Correction(K, b) == [d \in Dofs |-> -Solve(K, b)[d]]

\* (mutant) the error measured on the residual as assembled, reactions
\* at the restrained dofs included
ErrorOfAssembledResidual == NormSq([d \in Dofs |-> f_int[d] - f_ext[d]])

\* err = np.linalg.norm(r), r being the vector dirichlet has modified
ErrorOfResidual == NormSq(r)

\* nr_correction = -solve(K_T_m, r_m); du += ; u += ; err = norm(r)
Correct ==
    /\ pc = "solve"
    /\ IF Singular(K_T)
       THEN /\ Raise("LinAlgError")
            /\ UNCHANGED <<du, u, err>>
       ELSE LET nr_correction == Correction(K_T, r)
            IN  /\ du' = [d \in Dofs |-> du[d] + nr_correction[d]]
                /\ u' = [d \in Dofs |-> u[d] + nr_correction[d]]
                /\ err' = ErrorOfResidual
                /\ pc' = "check"
                /\ UNCHANGED exc
    /\ UNCHANGED <<inputs, displacement_bc, incr_id, lmbda, k, f_ext, displ,
                   committed, f_int, K_T, r, int_var, trial, tangent_dgamma,
                   num_assemble, col_writes, fields, snapshot>>

\* if err <= tol
ConvergenceTest(e) == e <= tol * tol

\* element field of the accumulated plastic strain handed to write_field:
\* {eid: eps_bar_p_n[(eid, gp)] for eid in elements for gp in range(4)}
PlasticStrainField(eps_bar_p) ==
    [eid \in DOMAIN ModelElements |-> eps_bar_p[<<eid, ReportedGaussPoints - 1>>]]

\* (mutant) the increment du is stored instead of the total displacement
StoreColumnIncrement(history, col, value) == [history EXCEPT ![col] = du]

\* the history after displ[:, incr_id] = u
StoreColumn(history, col, value) == [history EXCEPT ![col] = value]

\* (mutant) the plastic multiplier of the increment is committed as the
\* accumulated plastic strain
CommitMultiplierAsStrain(candidate) ==
    [eps_e |-> candidate.eps_e, eps_bar_p |-> candidate.dgamma,
     dgamma |-> candidate.dgamma]

\* the maps after the commit of the candidate
Commit(candidate) ==
    [eps_e |-> candidate.eps_e, eps_bar_p |-> candidate.eps_bar_p,
     dgamma |-> candidate.dgamma]

\* converged: store u, commit the candidate, report the fields, break
Converged ==
    /\ pc = "check"
    /\ ConvergenceTest(err)
    /\ displ' = StoreColumn(displ, incr_id + 1, u)
    /\ col_writes' = Append(col_writes, incr_id)
    /\ eps_e_n' = Commit(int_var).eps_e
    /\ eps_bar_p_n' = Commit(int_var).eps_bar_p
    /\ dgamma_n' = Commit(int_var).dgamma
    /\ snapshot' = [eps_e |-> int_var.eps_e, eps_bar_p |-> int_var.eps_bar_p,
                    dgamma |-> int_var.dgamma]
    /\ LET displacement == [name |-> "Displacement", incr |-> incr_id,
                            lmbda |-> lmbda, data |-> u]
       IN  IF \E eid \in DOMAIN ModelElements, gp \in 0..(ReportedGaussPoints - 1) :
                 <<eid, gp>> \notin DOMAIN int_var.eps_bar_p
           THEN /\ fields' = Append(fields, displacement)
                /\ Raise("KeyError")
                /\ UNCHANGED incr_id
           ELSE /\ fields' = fields \o
                     <<displacement,
                       [name |-> "Cummulative plastic strain", incr |-> incr_id,
                        lmbda |-> lmbda,
                        data |-> PlasticStrainField(int_var.eps_bar_p)],
                       [name |-> "Sigma x", incr |-> incr_id, lmbda |-> lmbda,
                        data |-> int_var.sig_ele]>>
                /\ incr_id' = incr_id + 1
                /\ pc' = "incr"
                /\ UNCHANGED exc
    /\ UNCHANGED <<inputs, displacement_bc, lmbda, k, f_ext, du, u, iteration,
                   num_assemble>>

\* (mutant) the iteration is run again without being counted
NextIterationRetried ==
    /\ pc = "check"
    /\ ~ConvergenceTest(err)
    /\ k + 1 < max_num_iter
    /\ pc' = "assemble"
    /\ UNCHANGED <<inputs, displacement_bc, incr_id, lmbda, k, f_ext, du, u,
                   displ, committed, iteration, exc, num_assemble, col_writes,
                   fields, snapshot>>

\* not converged and iterations left: continue
NextIteration ==
    /\ pc = "check"
    /\ ~ConvergenceTest(err)
    /\ k + 1 < max_num_iter
    /\ k' = k + 1
    /\ pc' = "assemble"
    /\ UNCHANGED <<inputs, displacement_bc, incr_id, lmbda, f_ext, du, u, displ,
                   committed, iteration, exc, num_assemble, col_writes, fields,
                   snapshot>>

\* (mutant) the candidate of the last iteration is kept on failure
DivergedCommitting ==
    /\ pc = "check"
    /\ ~ConvergenceTest(err)
    /\ k + 1 = max_num_iter
    /\ Raise("NotConverged")
    /\ eps_e_n' = int_var.eps_e
    /\ eps_bar_p_n' = int_var.eps_bar_p
    /\ dgamma_n' = int_var.dgamma
    /\ UNCHANGED <<inputs, displacement_bc, incr_id, lmbda, k, f_ext, du, u,
                   displ, iteration, num_assemble, col_writes, fields, snapshot>>

\* the for-else: raise Exception('Solution did not converge ...')
Diverged ==
    /\ pc = "check"
    /\ ~ConvergenceTest(err)
    /\ k + 1 = max_num_iter
    /\ Raise("NotConverged")
    /\ UNCHANGED <<inputs, displacement_bc, incr_id, lmbda, k, f_ext, du, u,
                   displ, committed, iteration, num_assemble, col_writes,
                   fields, snapshot>>

Next ==
    \/ BeginIncrement
    \/ Assemble
    \/ ApplyBC
    \/ Correct
    \/ Converged
    \/ NextIteration
    \/ Diverged
    \/ Return

Spec == Init /\ [][Next]_vars

\* runs over every number of quadrature points per direction and every
\* tolerance of the bounds
WideInit ==
    /\ RunInputs(1..MaxQuadPoints, 0..MaxTol, Materials)
    /\ pc = "incr"
    /\ SolverEntry

WideSpec == WideInit /\ [][Next]_vars

(***************************************************************************)
(* A run from the construction of its material on.                         *)
(***************************************************************************)
\* Material(**mat_dic)
ConstructMaterial ==
    /\ pc = "material"
    /\ IF MaterialNew(material).error # ""
       THEN /\ Raise(MaterialNew(material).error)
            /\ UNCHANGED material
       ELSE /\ material' = MaterialNew(material).object
            /\ pc' = "incr"
            /\ UNCHANGED exc
    /\ UNCHANGED <<model, solver_state>>

MaterialInit ==
    /\ RunInputs({DefaultQuadPoints}, {DefaultTol}, MaterialKeywords)
    /\ pc = "material"
    /\ SolverEntry

MaterialNext ==
    \/ ConstructMaterial
    \/ Next

MaterialSpec == MaterialInit /\ [][MaterialNext]_vars

(***************************************************************************)
(* The construction of a model: Model.__init__.                            *)
(***************************************************************************)
\* etypes lists a model may be declared with
EtypeChoices == SUBSET {1, 3, 5, 15} \ {{}}

\* displacement constraints: none; one location with every pair of None, 0
\* and 1; the supports of the runs; a line that restrains nothing over a
\* point that does
ConstraintChoices ==
    {None}
    \cup {[loc \in {l} |-> <<a, b>>] :
                l \in {10, 11, 12},
                a \in {None, Some(0), Some(1)},
                b \in {None, Some(0), Some(1)}}
    \cup Supports
    \cup {[loc \in {11, 12} |->
             IF loc = 11 THEN <<None, None>> ELSE <<Some(1), None>>]}

\* lines 42-50: the element types decide the number of dof per node
ModelNumberDof ==
    /\ pc = "model"
    /\ IF get_number_dof(model.etypes) = 0
       THEN /\ Raise("ElementNotImplemented")
            /\ UNCHANGED model
       ELSE /\ model' = WithNumberDof(model)
            /\ pc' = "generate_dof"
            /\ UNCHANGED exc
    /\ UNCHANGED <<material, solver_state>>

\* line 55: self.nodes_dof = self._generate_dof()
ModelGenerateDof ==
    /\ pc = "generate_dof"
    /\ model' = WithNodesDof(model)
    /\ pc' = "connectivity"
    /\ UNCHANGED <<material, exc, solver_state>>

\* line 58: self.Lf, self.Lr = self.get_connectivity_matrices()
ModelConnectivity ==
    /\ pc = "connectivity"
    /\ model' = WithConnectivity(model, displacement_bc)
    /\ pc' = "built"
    /\ UNCHANGED <<material, exc, solver_state>>

ModelInit ==
    /\ load_increment = <<0>>
    /\ max_num_iter = 1
    /\ tol = DefaultTol
    /\ material = MaterialFull
    /\ num_quad_points = DefaultQuadPoints
    /\ f_ext_bar = ZeroVec
    /\ imposed_displ = None
    /\ displacement_bc \in ConstraintChoices
    /\ \E es \in EtypeChoices, n \in 1..MaxNodes : model = NewModel(es, n)
    /\ pc = "model"
    /\ SolverEntry

ModelNext ==
    \/ ModelNumberDof
    \/ ModelGenerateDof
    \/ ModelConnectivity

ModelSpec == ModelInit /\ [][ModelNext]_vars

(***************************************************************************)
(* Properties.                                                             *)
(***************************************************************************)
Terminated == pc \in {"returned", "raised"}

\* the Gauss-point state the run holds as committed
CommittedState ==
    [eps_e |-> eps_e_n, eps_bar_p |-> eps_bar_p_n, dgamma |-> dgamma_n]

C2_DivergedNoPartialCommit ==
    (pc = "raised" /\ exc.type = "NotConverged") =>
        /\ CommittedState = snapshot
        /\ Len(col_writes) = incr_id
        /\ \A i \in 1..Len(col_writes) : col_writes[i] < incr_id
        /\ displ[incr_id + 1] = ZeroVec
        /\ \A i \in 1..Len(fields) : fields[i].incr < incr_id
        /\ ~ENABLED Next

\* the second increment diverges with a candidate that is not the state
\* committed by the first increment
C2_Witness ==
    /\ pc = "raised"
    /\ exc.type = "NotConverged"
    /\ incr_id = 1
    /\ int_var.eps_bar_p # eps_bar_p_n
    /\ u # displ[1]

\* C3: increments are solved in the order of the load program: whenever an
\* assembly of increment i has been made, exactly the increments before i
\* have converged and committed, in order; and the trial elastic strain and
\* trial accumulated plastic strain of that assembly are formed from the
\* state of the last commit (plus the strain increment of du), in every
\* iteration.
C3_TrialFromCommitted ==
    pc \in {"bc", "solve"} =>
        /\ col_writes = [i \in 1..incr_id |-> i - 1]
        /\ \A key \in GaussKeys(num_quad_points) :
              /\ trial.eps_e[key] =
                    snapshot.eps_e[key] + StrainIncrement(du, key[1], key[2])
              /\ trial.eps_bar_p[key] = snapshot.eps_bar_p[key]

\* a later iteration of the second increment, the first having committed a
\* state with plastic strain, with a candidate that differs from it
C3_Witness ==
    /\ pc = "bc"
    /\ incr_id = 1
    /\ k >= 1
    /\ \E key \in DOMAIN snapshot.eps_bar_p : snapshot.eps_bar_p[key] > 0
    /\ int_var.eps_e # snapshot.eps_e

\* the run can be solved: the material is complete for every element and
\* every dof that no integration point stiffens is restrained
WellPosed ==
    /\ \A eid \in DOMAIN ModelElements : MaterialOK(material, eid)
    /\ \A d \in Dofs :
          \/ Restrained(displacement_bc, d)
          \/ \E key \in GaussKeys(num_quad_points) :
                ElementDof(key[1])[LocalDofOf(key[1], key[2])] = d

\* C4: with the load program <<0>> (and a model that can be solved) the run
\* raises nothing, its convergence test is met at iteration 1 (k = 0) with
\* a zero residual, and it returns a history whose single column is the
\* zero displacement, with zero accumulated plastic strain at every
\* integration point.
C4_ZeroLoadConvergesAtOnce ==
    (load_increment = <<0>> /\ WellPosed) =>
        /\ pc # "raised"
        /\ (pc = "check" =>
               k = 0 /\ r = ZeroVec /\ err = 0 /\ ConvergenceTest(err))
        /\ (pc = "returned" =>
               /\ displ = <<ZeroVec>>
               /\ col_writes = <<0>>
               /\ \A key \in DOMAIN eps_bar_p_n : eps_bar_p_n[key] = 0)

\* a run of the zero load program returned, for a model that carries a
\* reference traction and an imposed displacement
C4_Witness ==
    /\ load_increment = <<0>>
    /\ pc = "returned"
    /\ f_ext_bar # ZeroVec
    /\ imposed_displ # None
    /\ num_assemble = 1

\* every integration point has stayed below yield: no plastic strain is
\* committed and the trial stress of the last assembly is within the yield
\* stress; the load is a traction only
ElasticRun ==
    /\ WellPosed
    /\ imposed_displ = None
    /\ \A key \in DOMAIN snapshot.eps_bar_p : snapshot.eps_bar_p[key] = 0
    /\ \A key \in DOMAIN trial.eps_e :
          Abs(material.E[PhysicalSurf(key[1])] * trial.eps_e[key])
              <= material.sig_y0[PhysicalSurf(key[1])]

\* the load vector the previous increment converged under
PreviousLoad ==
    IF incr_id = 0 THEN ZeroVec ELSE LoadVector(load_increment[incr_id])

\* the increment changes the external load on a dof that is not restrained
LoadChangeOnFreeDof ==
    \E d \in Dofs : ~Restrained(displacement_bc, d) /\ f_ext[d] # PreviousLoad[d]

AllRestrained ==
    /\ imposed_displ = None
    /\ \A d \in Dofs :
          Restrained(displacement_bc, d) /\ PrescribedAt(displacement_bc, d) = 0

C7_ImposedScaledOnce ==
    /\ [](pc \in {"solve", "check"} /\ imposed_displ # None =>
            \A line \in DOMAIN imposed_displ : \A j \in 1..2 :
                displacement_bc[line][j] =
                    IF imposed_displ[line][j] = None THEN None
                    ELSE Some(lmbda * imposed_displ[line][j][1]))
    /\ [][imposed_displ' = imposed_displ]_vars

\* the second increment, of load factor 1, after a first of load factor 0:
\* the value handed over is the reference value, not 1 * 0
C7_Witness ==
    /\ pc = "solve"
    /\ imposed_displ # None
    /\ incr_id = 1
    /\ load_increment = <<0, 1>>
    /\ displacement_bc[12] = <<Some(1), None>>

\* the displacement stored at the convergence of the previous increment
DisplAtLastConvergence ==
    IF incr_id = 0 THEN ZeroVec ELSE displ[incr_id]

\* C8: du is zero when the first iteration of an increment starts; at every
\* position of the Newton loop u is the displacement stored at convergence
\* of the previous increment (zero for the first) plus du; and a correction
\* advances du and u by the same amount.
C8_IncrementAccumulates ==
    /\ [](pc = "assemble" /\ k = 0 => du = ZeroVec)
    /\ [](pc \in {"assemble", "bc", "solve", "check"} =>
            \A d \in Dofs : u[d] = DisplAtLastConvergence[d] + du[d])
    /\ [][pc = "solve" /\ pc' = "check" =>
            \A d \in Dofs : du'[d] - du[d] = u'[d] - u[d]]_vars

\* an iteration of the second increment, after a first increment that
\* stored a non-zero displacement, with a non-zero increment
C8_Witness ==
    /\ pc = "check"
    /\ incr_id = 1
    /\ du # ZeroVec
    /\ displ[1] # ZeroVec
    /\ u # du

\* C9: history columns are written one per converged increment, in
\* increasing order and once each; a column changes only in the converged
\* step of its own increment and then holds u; at a normal return there is
\* one column per load factor and each has been written.
C9_HistoryColumns ==
    /\ [](col_writes = [i \in 1..Len(col_writes) |-> i - 1])
    /\ [](pc = "returned" =>
            /\ Len(displ) = Len(load_increment)
            /\ Len(col_writes) = Len(load_increment))
    /\ [][\A i \in 1..Len(displ) :
            (displ'[i] # displ[i] \/ (Len(col_writes') >= i /\ Len(col_writes) < i)) =>
                /\ pc = "check" /\ ConvergenceTest(err)
                /\ i = incr_id + 1
                /\ displ'[i] = u]_vars

\* a run of two increments returned with two different non-zero columns
C9_Witness ==
    /\ pc = "returned"
    /\ Len(load_increment) = 2
    /\ displ[1] # ZeroVec
    /\ displ[2] # ZeroVec
    /\ displ[2] # displ[1]

\* the position is in the Newton loop of an increment
InLoop == pc \in {"assemble", "bc", "solve", "check"}

\* no retry: an assembly is entered either as iteration 0 of an increment
\* that has just begun or as the next iteration of the same increment, and
\* an increment is begun only after the previous one converged
NoRetry ==
    /\ (pc' = "assemble" /\ pc # "assemble" =>
            \/ pc = "incr" /\ k' = 0 /\ incr_id' = incr_id
            \/ pc = "check" /\ k' = k + 1 /\ incr_id' = incr_id)
    /\ (pc' = "incr" => pc = "check" /\ incr_id' = incr_id + 1)
    /\ (pc = "assemble" => num_assemble' = num_assemble + 1)
    /\ (pc # "assemble" => num_assemble' = num_assemble)

\* steps a run can still take: one to begin each remaining increment, four
\* (assemble, boundary conditions, solve, test) for each of its iterations,
\* and one to return
StepsPerIncrement == 1 + 4 * max_num_iter

StepsLeft ==
    IF Terminated THEN 0
    ELSE 1 + (Len(load_increment) - incr_id) * StepsPerIncrement
           - (CASE pc = "incr" -> 0
                [] pc = "assemble" -> 1 + 4 * k
                [] pc = "bc" -> 2 + 4 * k
                [] pc = "solve" -> 3 + 4 * k
                [] pc = "check" -> 4 + 4 * k)

\* C10 as stated: the run ends in a normal return or in the exception of
\* the non-converged increment, and nowhere else.
C10_Original ==
    /\ (pc = "raised" => exc.type = "NotConverged")
    /\ num_assemble <= Len(load_increment) * max_num_iter

\* C10 as amended: every run terminates (each step strictly decreases a
\* natural-number count of the steps left, and a run that has not
\* terminated can take a step), in a normal return, in the
\* exception of a non-converged increment, or in an error raised inside an
\* iteration (missing material property, singular system, key error);
\* local_solver is called at most len(load_increment) * max_num_iter times;
\* no increment and no iteration is run twice.
C10_TerminatesWithoutRetry ==
    /\ [](StepsLeft \in Nat /\ (Terminated \/ ENABLED Next))
    /\ [][StepsLeft' < StepsLeft]_vars
    /\ [](num_assemble <= Len(load_increment) * max_num_iter)
    /\ [](InLoop => k < max_num_iter /\ incr_id < Len(load_increment))
    /\ [](pc = "returned" => incr_id = Len(load_increment))
    /\ [](pc = "raised" =>
            exc.type \in {"NotConverged", "MissingMaterial", "LinAlgError",
                          "KeyError"})
    /\ [][NoRetry]_vars

\* a run returned having used every iteration it was allowed
C10_Witness ==
    /\ pc = "returned"
    /\ max_num_iter = MaxIter
    /\ num_assemble = Len(load_increment) * max_num_iter

\* C11: when an increment fails to converge, the exception reports the
\* (one-based) index of the failed increment, the number of Newton
\* iterations run in it, and the residual norm of its last iteration.
C11_ReportsIterationsRun ==
    (pc = "raised" /\ exc.type = "NotConverged") =>
        /\ exc.step = incr_id + 1
        /\ exc.iters = k + 1
        /\ exc.iters = max_num_iter
        /\ exc.err = err

UpdateOfLastAssembly(key) ==
    state_update_mises(material.E[PhysicalSurf(key[1])],
                       material.H[PhysicalSurf(key[1])],
                       material.sig_y0[PhysicalSurf(key[1])],
                       trial.eps_e[key], trial.eps_bar_p[key])

\* f_int_e[i] and k_T_e[i, i] of the last assembly: the quadrature sums of
\* one element at its local dof i
ElementForce(eid, i) ==
    SumOver({gp \in GaussPoints(num_quad_points) : LocalDofOf(eid, gp) = i},
            [gp \in GaussPoints(num_quad_points) |->
                UpdateOfLastAssembly(<<eid, gp>>).sig])

ElementStiffness(eid, i) ==
    SumOver({gp \in GaussPoints(num_quad_points) : LocalDofOf(eid, gp) = i},
            [gp \in GaussPoints(num_quad_points) |->
                consistent_tangent_mises(
                    tangent_dgamma[<<eid, gp>>],
                    UpdateOfLastAssembly(<<eid, gp>>).sig,
                    material.E[PhysicalSurf(eid)],
                    material.H[PhysicalSurf(eid)],
                    UpdateOfLastAssembly(<<eid, gp>>).ep_flag)])

\* the local dofs of an element that are the global dof d
OwnedAt(eid, d) ==
    {i \in 1..Len(ElementDof(eid)) : ElementDof(eid)[i] = d}

\* C14: what a call of local_solver returns is, at every dof, the sum over
\* the elements owning the dof of their local force, and on the diagonal
\* of the tangent the sum of their local stiffness (zero elsewhere), all of
\* them those of this call.
C14_AssemblySums ==
    pc = "bc" =>
        /\ \A d \in Dofs :
              f_int[d] =
                  SumOver(DOMAIN ModelElements,
                          [eid \in DOMAIN ModelElements |->
                              SumOver(OwnedAt(eid, d),
                                      [i \in 1..Len(ElementDof(eid)) |->
                                          ElementForce(eid, i)])])
        /\ \A a \in Dofs : \A b \in Dofs :
              K_T[a][b] =
                  IF a # b THEN 0
                  ELSE SumOver(DOMAIN ModelElements,
                               [eid \in DOMAIN ModelElements |->
                                   SumOver(OwnedAt(eid, a),
                                           [i \in 1..Len(ElementDof(eid)) |->
                                               ElementStiffness(eid, i)])])

\* a later iteration in which both elements carry a non-zero force at the
\* dof they share (x of node 2), after an earlier call that returned
\* another force vector
C14_Witness ==
    /\ pc = "bc"
    /\ k >= 1
    /\ ElementDof(1)[3] = ElementDof(2)[1]
    /\ ElementForce(1, 3) # 0
    /\ ElementForce(2, 1) # 0
    /\ f_int[ElementDof(1)[3]] = ElementForce(1, 3) + ElementForce(2, 1)
    /\ f_int[ElementDof(2)[3]] # 0

\* the accumulated-plastic-strain field of the last converged increment
LastPlasticStrainField == fields[Len(fields) - 1]

\* C15: the accumulated-plastic-strain field emitted at a converged
\* increment holds, for every element, the average over the element's
\* integration points of the accumulated plastic strain just committed
\* (stated without the division: points times field = sum over the points).
C15_ReportsElementAverage ==
    (pc = "incr" /\ incr_id >= 1) =>
        /\ LastPlasticStrainField.name = "Cummulative plastic strain"
        /\ LastPlasticStrainField.incr = incr_id - 1
        /\ \A eid \in DOMAIN ModelElements :
              NumGauss(num_quad_points) * LastPlasticStrainField.data[eid] =
                  SumOver(GaussPoints(num_quad_points),
                          [gp \in GaussPoints(num_quad_points) |->
                              eps_bar_p_n[<<eid, gp>>]])

\* the constitutive update never returns less accumulated plastic strain
\* than it was given (the assumption of C18), at the points of the last
\* assembly
UpdateNotDecreasing ==
    \A key \in DOMAIN int_var.eps_bar_p :
        int_var.eps_bar_p[key] >= trial.eps_bar_p[key]

\* C18: the committed accumulated plastic strain of every integration
\* point is never negative, and no step of a run whose constitutive update
\* does not decrease it lowers it.
C18_PlasticStrainMonotone ==
    /\ [](\A key \in DOMAIN eps_bar_p_n : eps_bar_p_n[key] >= 0)
    /\ [][UpdateNotDecreasing =>
            \A key \in DOMAIN eps_bar_p_n :
                /\ key \in DOMAIN eps_bar_p_n'
                /\ eps_bar_p_n'[key] >= eps_bar_p_n[key]]_vars

\* the second commit of a run, made by an increment whose own plastic
\* multiplier is zero at a point that holds plastic strain from the first
C18_Witness ==
    /\ pc = "incr"
    /\ incr_id = 2
    /\ UpdateNotDecreasing
    /\ \E key \in DOMAIN eps_bar_p_n :
          /\ eps_bar_p_n[key] > 0
          /\ dgamma_n[key] = 0

\* the dofs driven by model.imposed_displ, each with its reference value
ImposedDofs ==
    IF imposed_displ = None THEN {}
    ELSE {d \in Dofs : Restrained(imposed_displ, d)}

\* C19: at every converged increment the displacement stored for a dof
\* driven by model.imposed_displ is the load factor of the increment times
\* the reference value.
C19_StoredImposedValue ==
    (pc = "incr" /\ incr_id >= 1 /\ imposed_displ # None) =>
        \A d \in ImposedDofs :
            displ[incr_id][d] =
                load_increment[incr_id] * PrescribedAt(imposed_displ, d)

\* what the run does instead: every iteration hands dirichlet the total
\* value lmbda * d and adds the solved correction to u, so that at the test
\* of iteration k + 1 the driven dof has moved by (k + 1) * lmbda * d since
\* the last convergence.
ImposedValueAccumulates ==
    (pc = "check" /\ imposed_displ # None) =>
        \A d \in ImposedDofs :
            u[d] = DisplAtLastConvergence[d]
                     + (k + 1) * lmbda * PrescribedAt(imposed_displ, d)

\* C17: the keys of the three committed maps are at all times those built
\* at the start of the run, and no lookup of an (element, integration
\* point) key fails, whatever the number of quadrature points per direction.
C17_KeysStable ==
    /\ DOMAIN eps_e_n = InitialKeys(num_quad_points)
    /\ DOMAIN eps_bar_p_n = InitialKeys(num_quad_points)
    /\ DOMAIN dgamma_n = InitialKeys(num_quad_points)
    /\ (pc = "raised" => exc.type # "KeyError")


\* the material lacks a hardening modulus or a yield stress for some element
LacksPlasticProperty ==
    \E eid \in DOMAIN ModelElements : ~ MaterialOK(material, eid)

\* C12: a material given without E or without nu is refused by the
\* constructor, so that no run starts with it; a material constructed without
\* H or sig_y0 (for the surface of some element) stops the run in its first
\* assembly, in increment 1 and iteration 0, with a missing-property error,
\* before any history column or field is written and with the committed maps
\* still at their initial zeros.
C12_MissingPropertyFailsEarly ==
    /\ ("E" \notin DOMAIN material \/ "nu" \notin DOMAIN material) =>
           /\ pc \in {"material", "raised"}
           /\ num_assemble = 0
           /\ pc = "raised" =>
                  exc.type = (IF "E" \notin DOMAIN material
                              THEN "Missing E" ELSE "Missing nu")
    /\ ({"E", "nu"} \subseteq DOMAIN material /\ pc # "material"
            /\ LacksPlasticProperty) =>
           /\ pc \in {"incr", "assemble", "raised"}
           /\ pc # "raised" => num_assemble = 0
           /\ pc = "raised" =>
                  /\ exc.type = "MissingMaterial"
                  /\ exc.step = 1
                  /\ exc.iters = 0
                  /\ num_assemble = 1
           /\ col_writes = << >>
           /\ fields = << >>
           /\ displ = [i \in 1..Len(load_increment) |-> ZeroVec]
           /\ \A key \in InitialKeys(num_quad_points) :
                  /\ eps_e_n[key] = 0
                  /\ eps_bar_p_n[key] = 0
                  /\ dgamma_n[key] = 0

\* a constructed material whose hardening modulus is for another surface
\* stopped a loaded run in its first assembly
C12_Witness ==
    /\ pc = "raised"
    /\ exc.type = "MissingMaterial"
    /\ "H" \in DOMAIN material
    /\ "sig_y0" \in DOMAIN material
    /\ f_ext_bar # ZeroVec
    /\ load_increment[1] = 1


\* the nodes of a physical point (type 15) or line (type 1) element
ConstrainedNodes(e) ==
    IF e[1] = 15 THEN {e[Len(e)]}
    ELSE IF e[1] = 1 THEN {e[Len(e) - 1], e[Len(e)]}
    ELSE {}

\* the pairs (constraint location, element of it) that hold node n and whose
\* value for direction j is not None
RestrainingConstraints(n, j) ==
    {le \in (DOMAIN displacement_bc) \X (DOMAIN model.mesh) :
        /\ model.mesh[le[2]][3] = le[1]
        /\ n \in ConstrainedNodes(model.mesh[le[2]])
        /\ displacement_bc[le[1]][j] # None}

\* the rows of Lr that select the j-th dof of node n
RowsSelecting(n, j) ==
    {i \in 1..Len(model.Lr) :
        model.Lr[i] = UnitRow(model.num_dof, model.nodes_dof[n][j] - 1)}

\* C16: in the built model, Lr holds one unit row selecting the j-th dof of
\* node n for every constraint (and element of its location) that holds n
\* and gives direction j a value other than None, and no other row: a
\* direction is restrained exactly when its value is not None, the other
\* direction of the pair plays no part, and a value of 0 restrains.
C16_RestrainedIffNotNone ==
    pc = "built" =>
        /\ \A n \in model.nodes, j \in 1..2 :
               Cardinality(RowsSelecting(n, j))
                   = Cardinality(RestrainingConstraints(n, j))
        /\ \A i \in 1..Len(model.Lr) :
               \E n \in model.nodes, j \in 1..2 : i \in RowsSelecting(n, j)
        /\ \A i \in 1..Len(model.Lr) :
               Cardinality({p \in DOMAIN model.Lr[i] : model.Lr[i][p] = 1}) = 1

\* a line constraint (None, 0) on a three-node mesh left the x direction of
\* its nodes free and restrained their y direction
C16_Witness ==
    /\ pc = "built"
    /\ model.num_nodes = 3
    /\ DOMAIN displacement_bc = {11}
    /\ displacement_bc[11] = <<None, Some(0)>>
    /\ Len(model.Lr) = 2
    /\ \A n \in ConstrainedNodes(model.mesh[102]) :
           RowsSelecting(n, 1) = {} /\ RowsSelecting(n, 2) # {}

\* C20: the dofs _generate_dof gives the nodes 1..N are num_dof_node
\* consecutive numbers per node, shared by no two nodes, and together exactly
\* 1..num_dof with num_dof = N * num_dof_node, for 2, 3 and 6 dof per node.
C20_DofsNumberedFromOne ==
    pc \in {"connectivity", "built"} =>
        /\ model.num_dof_node \in {2, 3, 6}
        /\ model.num_dof = model.num_nodes * model.num_dof_node
        /\ \A n \in model.nodes :
               /\ Len(model.nodes_dof[n]) = model.num_dof_node
               /\ \A i \in 1..(model.num_dof_node - 1) :
                      model.nodes_dof[n][i + 1] = model.nodes_dof[n][i] + 1
        /\ \A n, m \in model.nodes :
               n # m =>
                   \A i, j \in 1..model.num_dof_node :
                       model.nodes_dof[n][i] # model.nodes_dof[m][j]
        /\ {model.nodes_dof[n][i] :
                n \in model.nodes, i \in 1..model.num_dof_node}
               = 1..model.num_dof

\* for two dof per node the same numbering is exactly 1..num_dof
DofsNumberedFromOneInPlane ==
    (pc \in {"connectivity", "built"} /\ model.num_dof_node = 2) =>
        {model.nodes_dof[n][i] : n \in model.nodes, i \in 1..2}
            = 1..model.num_dof


\* the du local_solver was called with in the iteration under test: line 97
\* runs before du += nr_correction (line 119), and K_T and r are those the
\* correction was solved from
EvaluatedIncrement ==
    [d \in Dofs |-> du[d] - Correction(K_T, r)[d]]

\* C21: in the step that stores a converged increment, the column written to
\* the history is the displacement of the previous convergence plus the du
\* at which the committed candidate state and the accepted residual were
\* evaluated.
C21_StoredMatchesEvaluated ==
    [][(pc = "check" /\ ConvergenceTest(err)) =>
           \A d \in Dofs :
               displ'[incr_id + 1][d]
                   = DisplAtLastConvergence[d] + EvaluatedIncrement[d]]_vars

\* what the converged step stores: the evaluated increment and the Newton
\* correction solved from the accepted residual, which no assembly has seen
StoredIncludesLastCorrection ==
    [][(pc = "check" /\ ConvergenceTest(err)) =>
           \A d \in Dofs :
               displ'[incr_id + 1][d]
                   = DisplAtLastConvergence[d] + EvaluatedIncrement[d]
                         + Correction(K_T, r)[d]]_vars

\* with an accepted residual of zero the correction is zero and the stored
\* displacement is the evaluated one
StoredMatchesEvaluatedAtZeroResidual ==
    [][(pc = "check" /\ ConvergenceTest(err) /\ err = 0) =>
           \A d \in Dofs :
               displ'[incr_id + 1][d]
                   = DisplAtLastConvergence[d] + EvaluatedIncrement[d]]_vars


\* the trial strains of the assembly under test are those of the evaluated
\* increment, not of the du the correction has advanced
EvaluatedIncrementIsAssembled ==
    pc = "check" =>
        \A key \in DOMAIN trial.eps_e :
            trial.eps_e[key]
                = TrialStrain(EvaluatedIncrement, eps_e_n, key[1], key[2])


\* C22: after every assembly the stress of each element in the candidate is
\* the sum of the stresses of the element's integration points in that call
\* divided by their number; nothing of an earlier call is in it.
C22_ElementStressIsMean ==
    pc \in {"bc", "solve", "check"} =>
        \A eid \in DOMAIN ModelElements :
            /\ int_var.sig_ele[eid].den = NumGauss(num_quad_points)
            /\ int_var.sig_ele[eid].num
                   = SumOver(GaussPoints(num_quad_points),
                             [gp \in GaussPoints(num_quad_points) |->
                                 UpdateOfLastAssembly(<<eid, gp>>).sig])

\* a later call of an increment returned a non-zero stress for element 2
\* whose integration points do not all carry the same stress
C22_Witness ==
    /\ pc = "bc"
    /\ k >= 1
    /\ int_var.sig_ele[2].num # 0
    /\ \E gp, gq \in GaussPoints(num_quad_points) :
           UpdateOfLastAssembly(<<2, gp>>).sig
               # UpdateOfLastAssembly(<<2, gq>>).sig

=============================================================================
